---- MODULE Spec2Model ----
(***************************************************************************)
(* Model of the 1BRC Go solution (src/main.go): the fixed-point numeric    *)
(* parser, the chunk scanner, the goroutine pipeline (workers, closer,     *)
(* merge loop) and the report formatter.                                   *)
(*                                                                         *)
(* Bytes are their ASCII codes.  Byte offsets are 0-based as in the Go     *)
(* code; a Go slice data[a:b] is the TLA+ sequence SubSeq(data, a+1, b).   *)
(***************************************************************************)
EXTENDS Integers, Sequences, FiniteSets, TLC

VARIABLES
    data,         \* the mmap'ed file contents (read-only)
    numCPU,       \* runtime.NumCPU()
    mainPc,       \* position of the main goroutine
    workerCount,  \* main: workerCount
    chunkSize,    \* main: chunkSize
    spawnI,       \* main: loop variable i of the spawn loop
    wpc,          \* position of each worker goroutine
    wrange,       \* arguments (s, e) each worker goroutine was started with
    interns,      \* the *stationIntern each worker produced
    wg,           \* sync.WaitGroup counter
    resultsCh,    \* buffered channel contents (worker ids = pointers)
    closed,       \* resultsCh has been closed
    closerPc,     \* position of the closer goroutine
    globalStats,  \* main: globalStats map
    merged,       \* sequence of worker results folded so far, in order
    output,       \* lines written to stdout
    parsed        \* result of a stand-alone call of parseTemperatureFromBytes

vars == <<data, numCPU, mainPc, workerCount, chunkSize, spawnI, wpc, wrange,
          interns, wg, resultsCh, closed, closerPc, globalStats, merged,
          output, parsed>>

----------------------------------------------------------------------------
(* Bytes *)
NL    == 10      \* '\n'
MINUS == 45      \* '-'
DOT   == 46      \* '.'
SLASH == 47      \* '/'
ZERO  == 48      \* '0'
NINE  == 57      \* '9'
SEMI  == 59      \* ';'

(* Bounds *)
MaxLines  == 2   \* records per generated input file
MaxCPU    == 2   \* largest runtime.NumCPU() considered
MaxSpan   == 4   \* longest exhaustively enumerated value span
MaxDigits == 10  \* longest run of digits in the long value spans

At(s, i) == s[i + 1]                      \* s[i] with a 0-based index
Slice(s, a, b) == SubSeq(s, a + 1, b)     \* s[a:b]

----------------------------------------------------------------------------
(* Fixed-width integer arithmetic *)
MinInt32 == -2147483647 - 1

\* int32(x*10 + d) for an int32 x and 0 <= d <= 9, with two's complement
\* wrap-around, computed on 16-bit halves
MulAdd32(x, d) ==
    LET lo == x % 65536
        hi == x \div 65536
        t  == lo * 10 + d
        h  == hi * 10 + (t \div 65536)
        hw == ((h + 32768) % 65536) - 32768
    IN  hw * 65536 + (t % 65536)

\* int32(-x)
Neg32(x) == IF x = MinInt32 THEN MinInt32 ELSE -x

\* Go's / and % truncate toward zero (divisor > 0 here)
GoDiv(a, b) == IF a >= 0 THEN a \div b ELSE -((-a) \div b)
GoRem(a, b) == a - b * GoDiv(a, b)

abs32(x) == IF x < 0 THEN Neg32(x) ELSE x
abs64(x) == IF x < 0 THEN -x ELSE x

----------------------------------------------------------------------------
(* parseTemperatureFromBytes *)

\* the loop over the integral part; yields the cursor, intPart and whether
\* the loop returned failure
RECURSIVE ParseIntPart(_, _, _, _)
ParseIntPart(d, i, end, intPart) ==
    IF ~(i < end) THEN [i |-> i, intPart |-> intPart, ok |-> TRUE]
    ELSE LET c == At(d, i) IN
         IF c = DOT THEN [i |-> i + 1, intPart |-> intPart, ok |-> TRUE]
         ELSE IF c < ZERO \/ c > NINE THEN [i |-> i, intPart |-> 0, ok |-> FALSE]
         ELSE ParseIntPart(d, i + 1, end, MulAdd32(intPart, c - ZERO))

FixedPoint_NoSign(sign, intPart, fracPart) == MulAdd32(intPart, fracPart)

\* return sign * (intPart*10 + fracPart)
FixedPoint(sign, intPart, fracPart) ==
    LET m == MulAdd32(intPart, fracPart)
    IN  IF sign = 1 THEN m ELSE Neg32(m)

parseTemperatureFromBytes(d, start, end) ==
    IF start >= end THEN [val |-> 0, ok |-> FALSE]
    ELSE
      LET neg  == At(d, start) = MINUS
          sign == IF neg THEN -1 ELSE 1
          i0   == IF neg THEN start + 1 ELSE start
          lp   == ParseIntPart(d, i0, end, 0)
      IN  IF ~lp.ok THEN [val |-> 0, ok |-> FALSE]
          ELSE IF lp.i < end
               THEN LET c == At(d, lp.i) IN
                    IF c < ZERO \/ c > NINE THEN [val |-> 0, ok |-> FALSE]
                    ELSE [val |-> FixedPoint(sign, lp.intPart, c - ZERO), ok |-> TRUE]
               ELSE [val |-> FixedPoint(sign, lp.intPart, 0), ok |-> TRUE]

----------------------------------------------------------------------------
(* processChunk *)

ZeroStats == [min |-> 0, max |-> 0, sum |-> 0, count |-> 0]   \* stationStats{}

EmptyIntern == [nameToID |-> <<>>, idToName |-> <<>>, stats |-> <<>>]

\* boundary alignment: advance start until the byte before it is a newline
RECURSIVE Realign(_, _, _)
Realign(d, start, end) ==
    IF start = 0 THEN start
    ELSE IF start < end /\ At(d, start - 1) # NL THEN Realign(d, start + 1, end)
    ELSE start

\* bytes.IndexByte(d[i:end], c)
RECURSIVE IndexByteFrom(_, _, _, _, _)
IndexByteFrom(d, i, end, c, j) ==
    IF i + j >= end THEN -1
    ELSE IF At(d, i + j) = c THEN j
    ELSE IndexByteFrom(d, i, end, c, j + 1)

IndexByte(d, i, end, c) == IndexByteFrom(d, i, end, c, 0)

\* backward scan for the separator, starting at index i
RECURSIVE LastSemicolon(_, _)
LastSemicolon(line, i) ==
    IF i < 0 THEN -1
    ELSE IF At(line, i) = SEMI THEN i
    ELSE LastSemicolon(line, i - 1)

SeparatorOK_AllowFirst(semicolonIdx, n) ==
    ~(semicolonIdx < 0 \/ semicolonIdx >= n - 1)

\* negation of the skip condition on the separator position
SeparatorOK(semicolonIdx, n) ==
    ~(semicolonIdx <= 0 \/ semicolonIdx >= n - 1)


Accumulate_NoMax(stats, temp) ==
    [min   |-> IF stats.count = 0 THEN temp
               ELSE IF temp < stats.min THEN temp ELSE stats.min,
     max   |-> IF stats.count = 0 THEN temp ELSE stats.max,
     sum   |-> stats.sum + temp,
     count |-> stats.count + 1]

Accumulate_ZeroSeed(stats, temp) ==
    [min   |-> IF temp < stats.min THEN temp ELSE stats.min,
     max   |-> IF temp > stats.max THEN temp ELSE stats.max,
     sum   |-> stats.sum + temp,
     count |-> stats.count + 1]

\* the per-record update of a stationStats
Accumulate(stats, temp) ==
    [min   |-> IF stats.count = 0 THEN temp
               ELSE IF temp < stats.min THEN temp ELSE stats.min,
     max   |-> IF stats.count = 0 THEN temp
               ELSE IF temp > stats.max THEN temp ELSE stats.max,
     sum   |-> stats.sum + temp,
     count |-> stats.count + 1]


ProcessLine_EntryFirst(intern, line) ==
    IF Len(line) = 0 THEN intern
    ELSE
      LET semicolonIdx == LastSemicolon(line, Len(line) - 1) IN
      IF ~SeparatorOK(semicolonIdx, Len(line)) THEN intern
      ELSE
        LET p == parseTemperatureFromBytes(line, semicolonIdx + 1, Len(line))
            stationName == Slice(line, 0, semicolonIdx)
            exists == stationName \in DOMAIN intern.nameToID
            in1 == IF exists THEN intern
                   ELSE [nameToID |-> (stationName :> Len(intern.idToName))
                                          @@ intern.nameToID,
                         idToName |-> Append(intern.idToName, stationName),
                         stats    |-> Append(intern.stats, ZeroStats)]
            stationID == in1.nameToID[stationName]
        IN  IF ~p.ok THEN in1
            ELSE [in1 EXCEPT !.stats[stationID + 1] = Accumulate(@, p.val)]

\* the body of the scan loop for one extracted line
ProcessLine(intern, line) ==
    IF Len(line) = 0 THEN intern
    ELSE
      LET semicolonIdx == LastSemicolon(line, Len(line) - 1) IN
      IF ~SeparatorOK(semicolonIdx, Len(line)) THEN intern
      ELSE
        LET p == parseTemperatureFromBytes(line, semicolonIdx + 1, Len(line)) IN
        IF ~p.ok THEN intern
        ELSE
          LET stationName == Slice(line, 0, semicolonIdx)
              exists == stationName \in DOMAIN intern.nameToID
              in1 == IF exists THEN intern
                     ELSE [nameToID |-> (stationName :> Len(intern.idToName))
                                            @@ intern.nameToID,
                           idToName |-> Append(intern.idToName, stationName),
                           stats    |-> Append(intern.stats, ZeroStats)]
              stationID == in1.nameToID[stationName]
          IN  [in1 EXCEPT !.stats[stationID + 1] = Accumulate(@, p.val)]

\* the scan loop; acc.lines records the offsets of the lines extracted
RECURSIVE ScanLoop(_, _, _, _)
ScanLoop(d, i, end, acc) ==
    IF ~(i < end) THEN acc
    ELSE LET j == IndexByte(d, i, end, NL) IN
         IF j = -1 THEN acc
         ELSE ScanLoop(d, i + j + 1, end,
                       [intern |-> ProcessLine(acc.intern, Slice(d, i, i + j)),
                        lines  |-> Append(acc.lines, i)])

ScanChunk(d, start, end) ==
    ScanLoop(d, Realign(d, start, end), end,
             [intern |-> EmptyIntern, lines |-> <<>>])

processChunk(d, start, end) == ScanChunk(d, start, end).intern

\* offsets of the records the scan loop of processChunk(d, start, end) takes
ScannedLines(d, start, end) == ScanChunk(d, start, end).lines

----------------------------------------------------------------------------
(* merge *)

MergeStats_LastMin(g, stats) ==
    [min   |-> stats.min,
     max   |-> IF g.count = 0 THEN stats.max
               ELSE IF stats.max > g.max THEN stats.max ELSE g.max,
     sum   |-> g.sum + stats.sum,
     count |-> g.count + stats.count]

\* the combine of one worker entry into the global entry
MergeStats(g, stats) ==
    [min   |-> IF g.count = 0 THEN stats.min
               ELSE IF stats.min < g.min THEN stats.min ELSE g.min,
     max   |-> IF g.count = 0 THEN stats.max
               ELSE IF stats.max > g.max THEN stats.max ELSE g.max,
     sum   |-> g.sum + stats.sum,
     count |-> g.count + stats.count]

\* globalStats[stationName] of a Go map: the zero value when absent
Lookup(g, stationName) ==
    IF stationName \in DOMAIN g THEN g[stationName] ELSE ZeroStats

\* the loop over workerData.stats, from stationID on
RECURSIVE MergeFrom(_, _, _)
MergeFrom(g, workerData, stationID) ==
    IF stationID >= Len(workerData.stats) THEN g
    ELSE LET stationName == workerData.idToName[stationID + 1]
             m == MergeStats(Lookup(g, stationName), workerData.stats[stationID + 1])
         IN  MergeFrom((stationName :> m) @@ g, workerData, stationID + 1)

MergeIntern(g, workerData) == MergeFrom(g, workerData, 0)

----------------------------------------------------------------------------
(* report *)


RECURSIVE ByteLess_Descending(_, _)
ByteLess_Descending(a, b) ==
    IF Len(a) = 0 THEN FALSE
    ELSE IF Len(b) = 0 THEN TRUE
    ELSE IF a[1] > b[1] THEN TRUE
    ELSE IF a[1] < b[1] THEN FALSE
    ELSE ByteLess_Descending(Tail(a), Tail(b))

\* a < b on Go strings: byte-wise lexicographic order
RECURSIVE ByteLess(_, _)
ByteLess(a, b) ==
    IF Len(b) = 0 THEN FALSE
    ELSE IF Len(a) = 0 THEN TRUE
    ELSE IF a[1] < b[1] THEN TRUE
    ELSE IF a[1] > b[1] THEN FALSE
    ELSE ByteLess(Tail(a), Tail(b))

\* the keys of the map collected into a slice and sorted by sort.Strings
RECURSIVE SortStrings(_)
SortStrings(S) ==
    IF S = {} THEN <<>>
    ELSE LET m == CHOOSE x \in S : \A y \in S \ {x} : ByteLess(x, y)
         IN  <<m>> \o SortStrings(S \ {m})

\* decimal digits of a natural number
RECURSIVE Digits(_)
Digits(n) ==
    IF n < 10 THEN <<ZERO + n>>
    ELSE Digits(n \div 10) \o <<ZERO + (n % 10)>>

\* fmt's %d
FmtD(n) == IF n < 0 THEN <<MINUS>> \o Digits(-n) ELSE Digits(n)

MeanFixedPoint(s) == GoDiv(s.sum + GoDiv(s.count, 2), s.count)

\* "%d.%d" of the integer part and the absolute fractional digit
FmtTenths(v, frac) == FmtD(GoDiv(v, 10)) \o <<DOT>> \o FmtD(frac)

\* one Printf("%s;%d.%d/%d.%d/%d.%d\n", ...)
FormatLine(station, s) ==
    LET meanFixedPoint == MeanFixedPoint(s) IN
    station \o <<SEMI>>
      \o FmtTenths(s.min, abs32(GoRem(s.min, 10))) \o <<SLASH>>
      \o FmtTenths(meanFixedPoint, abs64(GoRem(meanFixedPoint, 10))) \o <<SLASH>>
      \o FmtTenths(s.max, abs32(GoRem(s.max, 10))) \o <<NL>>

Report(g) ==
    LET stations == SortStrings(DOMAIN g)
    IN  [n \in 1..Len(stations) |-> FormatLine(stations[n], g[stations[n]])]

----------------------------------------------------------------------------
(* Inputs *)

\* record shapes the generated files are built from
LineSet ==
    { <<65, 59, 49>>,                   \* A;1
      <<65, 59, 50>>,                   \* A;2
      <<65, 59, 45, 48, 46, 49>>,       \* A;-0.1
      <<66, 59, 45, 53, 46, 53>>,       \* B;-5.5
      <<>>,                             \* empty line
      <<67>>,                           \* C         (no separator)
      <<59, 49>>,                       \* ;1        (separator first)
      <<67, 59>>,                       \* C;        (separator last)
      <<67, 59, 120>>,                  \* C;x       (value rejected)
      <<67, 59, 49, 46, 50, 53>> }      \* C;1.25    (two fractional digits)

\* an optional last record without a terminating newline
TailSet == { <<>>, <<66, 59, 50>> }     \* B;2

RECURSIVE FilesOf(_)
FilesOf(n) ==
    IF n = 0 THEN { <<>> }
    ELSE { l \o <<NL>> \o f : l \in LineSet, f \in FilesOf(n - 1) }

InputFiles ==
    { f \o t : f \in UNION { FilesOf(n) : n \in 0..MaxLines }, t \in TailSet }

Workers == 0..(MaxCPU - 1)

----------------------------------------------------------------------------
(* The pipeline of main *)

NoParse == [done |-> FALSE, val |-> 0, ok |-> FALSE]

Init ==
    /\ data \in InputFiles
    /\ numCPU \in 1..MaxCPU
    /\ mainPc = "start"
    /\ workerCount = 0
    /\ chunkSize = 0
    /\ spawnI = 0
    /\ wpc = [w \in Workers |-> "none"]
    /\ wrange = [w \in Workers |-> [s |-> 0, e |-> 0]]
    /\ interns = [w \in Workers |-> EmptyIntern]
    /\ wg = 0
    /\ resultsCh = <<>>
    /\ closed = FALSE
    /\ closerPc = "none"
    /\ globalStats = <<>>
    /\ merged = <<>>
    /\ output = <<>>
    /\ parsed = NoParse

\* workerCount after the three clamps
ClampWorkers(cpus, fileSize) ==
    LET w1 == IF cpus < 1 THEN 1 ELSE cpus
        w2 == IF w1 > fileSize THEN fileSize ELSE w1
    IN  IF w2 = 0 THEN 1 ELSE w2


MainEmpty_StartsWorkers ==
    /\ mainPc = "start"
    /\ Len(data) = 0
    /\ workerCount' = 1
    /\ chunkSize' = 0
    /\ spawnI' = 0
    /\ mainPc' = "spawn"
    /\ UNCHANGED <<data, numCPU, wpc, wrange, interns, wg, resultsCh, closed,
                   closerPc, globalStats, merged, output, parsed>>

\* fileSize == 0: return
MainEmpty ==
    /\ mainPc = "start"
    /\ Len(data) = 0
    /\ mainPc' = "done"
    /\ UNCHANGED <<data, numCPU, workerCount, chunkSize, spawnI, wpc, wrange,
                   interns, wg, resultsCh, closed, closerPc, globalStats,
                   merged, output, parsed>>

\* workerCount, chunkSize, the WaitGroup and the channel are set up
MainPlan ==
    /\ mainPc = "start"
    /\ Len(data) # 0
    /\ workerCount' = ClampWorkers(numCPU, Len(data))
    /\ chunkSize' = Len(data) \div workerCount'
    /\ spawnI' = 0
    /\ mainPc' = "spawn"
    /\ UNCHANGED <<data, numCPU, wpc, wrange, interns, wg, resultsCh, closed,
                   closerPc, globalStats, merged, output, parsed>>


ChunkRange_NoRemainder(i, chunk, count, fileSize) ==
    [s |-> i * chunk, e |-> i * chunk + chunk]


ChunkRange_FromZero(i, chunk, count, fileSize) ==
    [s |-> 0,
     e |-> IF i = count - 1 THEN fileSize ELSE i * chunk + chunk]

\* the [start, end) of iteration i of the spawn loop
ChunkRange(i, chunk, count, fileSize) ==
    [s |-> i * chunk,
     e |-> IF i = count - 1 THEN fileSize ELSE i * chunk + chunk]

\* one iteration of the spawn loop: wg.Add(1); go func(s, e)
MainSpawn ==
    /\ mainPc = "spawn"
    /\ spawnI < workerCount
    /\ wrange' = [wrange EXCEPT ![spawnI] =
                      ChunkRange(spawnI, chunkSize, workerCount, Len(data))]
    /\ wg' = wg + 1
    /\ wpc' = [wpc EXCEPT ![spawnI] = "run"]
    /\ spawnI' = spawnI + 1
    /\ UNCHANGED <<data, numCPU, mainPc, workerCount, chunkSize, interns,
                   resultsCh, closed, closerPc, globalStats, merged, output,
                   parsed>>

\* the spawn loop ends; the closer goroutine is started
MainSpawnCloser ==
    /\ mainPc = "spawn"
    /\ ~(spawnI < workerCount)
    /\ closerPc' = "wait"
    /\ mainPc' = "merge"
    /\ UNCHANGED <<data, numCPU, workerCount, chunkSize, spawnI, wpc, wrange,
                   interns, wg, resultsCh, closed, globalStats, merged, output,
                   parsed>>

\* resultsCh <- processChunk(data, s, e); the send needs room in the buffer
\* of capacity workerCount and an open channel
WorkerSend(w) ==
    /\ wpc[w] = "run"
    /\ Len(resultsCh) < workerCount
    /\ ~closed
    /\ interns' = [interns EXCEPT ![w] = processChunk(data, wrange[w].s, wrange[w].e)]
    /\ resultsCh' = Append(resultsCh, w)
    /\ wpc' = [wpc EXCEPT ![w] = "sent"]
    /\ UNCHANGED <<data, numCPU, mainPc, workerCount, chunkSize, spawnI, wrange,
                   wg, closed, closerPc, globalStats, merged, output, parsed>>


WorkerDone_NoDecrement(w) ==
    /\ wpc[w] = "sent"
    /\ wpc' = [wpc EXCEPT ![w] = "done"]
    /\ UNCHANGED <<data, numCPU, mainPc, workerCount, chunkSize, spawnI, wrange,
                   interns, wg, resultsCh, closed, closerPc, globalStats, merged,
                   output, parsed>>

\* the deferred wg.Done()
WorkerDone(w) ==
    /\ wpc[w] = "sent"
    /\ wg' = wg - 1
    /\ wpc' = [wpc EXCEPT ![w] = "done"]
    /\ UNCHANGED <<data, numCPU, mainPc, workerCount, chunkSize, spawnI, wrange,
                   interns, resultsCh, closed, closerPc, globalStats, merged,
                   output, parsed>>


CloserClose_NoWait ==
    /\ closerPc = "wait"
    /\ closed' = TRUE
    /\ closerPc' = "done"
    /\ UNCHANGED <<data, numCPU, mainPc, workerCount, chunkSize, spawnI, wpc,
                   wrange, interns, wg, resultsCh, globalStats, merged, output,
                   parsed>>

\* wg.Wait() returns; close(resultsCh)
CloserClose ==
    /\ closerPc = "wait"
    /\ wg = 0
    /\ closed' = TRUE
    /\ closerPc' = "done"
    /\ UNCHANGED <<data, numCPU, mainPc, workerCount, chunkSize, spawnI, wpc,
                   wrange, interns, wg, resultsCh, globalStats, merged, output,
                   parsed>>

\* one iteration of "for workerData := range resultsCh"
MainMerge ==
    /\ mainPc = "merge"
    /\ Len(resultsCh) > 0
    /\ globalStats' = MergeIntern(globalStats, interns[Head(resultsCh)])
    /\ merged' = Append(merged, Head(resultsCh))
    /\ resultsCh' = Tail(resultsCh)
    /\ UNCHANGED <<data, numCPU, mainPc, workerCount, chunkSize, spawnI, wpc,
                   wrange, interns, wg, closed, closerPc, output, parsed>>


MainReport_NoWait ==
    /\ mainPc = "merge"
    /\ Len(resultsCh) = 0
    /\ output' = Report(globalStats)
    /\ mainPc' = "done"
    /\ UNCHANGED <<data, numCPU, workerCount, chunkSize, spawnI, wpc, wrange,
                   interns, wg, resultsCh, closed, closerPc, globalStats,
                   merged, parsed>>

\* the range loop ends on the closed, drained channel; sort and print
MainReport ==
    /\ mainPc = "merge"
    /\ Len(resultsCh) = 0
    /\ closed
    /\ output' = Report(globalStats)
    /\ mainPc' = "done"
    /\ UNCHANGED <<data, numCPU, workerCount, chunkSize, spawnI, wpc, wrange,
                   interns, wg, resultsCh, closed, closerPc, globalStats,
                   merged, parsed>>

Next ==
    \/ MainEmpty
    \/ MainPlan
    \/ MainSpawn
    \/ MainSpawnCloser
    \/ \E w \in Workers : WorkerSend(w)
    \/ \E w \in Workers : WorkerDone(w)
    \/ CloserClose
    \/ MainMerge
    \/ MainReport

Spec == Init /\ [][Next]_vars

----------------------------------------------------------------------------
(* Stand-alone runs of parseTemperatureFromBytes on one value span *)

SpanAlphabet == { MINUS, DOT, ZERO, NINE, 120 }     \* - . 0 9 x

RECURSIVE SpansOf(_)
SpansOf(n) ==
    IF n = 0 THEN { <<>> }
    ELSE { <<c>> \o sp : c \in SpanAlphabet, sp \in SpansOf(n - 1) }

\* optional '-', a run of one digit, optional ".9"
LongSpans ==
    { sg \o [i \in 1..k |-> c] \o fr :
        sg \in { <<>>, <<MINUS>> }, c \in { 49, 50, NINE }, k \in 1..MaxDigits,
        fr \in { <<>>, <<DOT, NINE>> } }

ValueSpans == UNION { SpansOf(n) : n \in 0..MaxSpan } \cup LongSpans

\* the span is the tail of a line "A;<span>", as processChunk passes it
ValuePrefix == <<65, SEMI>>

ValueStart == Len(ValuePrefix)

InitParse ==
    /\ data \in { ValuePrefix \o sp : sp \in ValueSpans }
    /\ numCPU = 1
    /\ mainPc = "parse"
    /\ workerCount = 0
    /\ chunkSize = 0
    /\ spawnI = 0
    /\ wpc = [w \in Workers |-> "none"]
    /\ wrange = [w \in Workers |-> [s |-> 0, e |-> 0]]
    /\ interns = [w \in Workers |-> EmptyIntern]
    /\ wg = 0
    /\ resultsCh = <<>>
    /\ closed = FALSE
    /\ closerPc = "none"
    /\ globalStats = <<>>
    /\ merged = <<>>
    /\ output = <<>>
    /\ parsed = NoParse

ParseValue ==
    /\ mainPc = "parse"
    /\ ~parsed.done
    /\ LET r == parseTemperatureFromBytes(data, ValueStart, Len(data))
       IN  parsed' = [done |-> TRUE, val |-> r.val, ok |-> r.ok]
    /\ UNCHANGED <<data, numCPU, mainPc, workerCount, chunkSize, spawnI, wpc,
                   wrange, interns, wg, resultsCh, closed, closerPc,
                   globalStats, merged, output>>

NextParse == ParseValue

SpecParse == InitParse /\ [][NextParse]_vars

----------------------------------------------------------------------------
(* The value grammar and the exact value of a span, for the parser claims *)

IsDigitByte(c) == c \in ZERO..NINE

ValueSpan == Slice(data, ValueStart, Len(data))

SpanNegative(sp) == Len(sp) > 0 /\ sp[1] = MINUS

SpanBody(sp) == IF SpanNegative(sp) THEN Tail(sp) ELSE sp

\* optional '-', one or more digits, optional '.' followed by exactly one digit
MatchesGrammar(sp) ==
    LET b == SpanBody(sp) IN
    \/ /\ Len(b) >= 1
       /\ \A i \in 1..Len(b) : IsDigitByte(b[i])
    \/ /\ Len(b) >= 3
       /\ b[Len(b) - 1] = DOT
       /\ IsDigitByte(b[Len(b)])
       /\ \A i \in 1..(Len(b) - 2) : IsDigitByte(b[i])

\* a byte that is neither a leading '-', nor a digit, nor the single '.'
\* that is followed by exactly one digit
HasUnexpectedByte(sp) ==
    \E p \in 1..Len(sp) :
        /\ ~(p = 1 /\ sp[p] = MINUS)
        /\ ~IsDigitByte(sp[p])
        /\ ~(/\ sp[p] = DOT
             /\ \A q \in 1..Len(sp) : sp[q] = DOT => q = p
             /\ p = Len(sp) - 1
             /\ IsDigitByte(sp[Len(sp)]))

\* decimal digits of the value times 10 of a span of the grammar
ScaledDigits(sp) ==
    LET b == SpanBody(sp) IN
    IF Len(b) >= 3 /\ b[Len(b) - 1] = DOT
    THEN SubSeq(b, 1, Len(b) - 2) \o <<b[Len(b)]>>
    ELSE b \o <<ZERO>>

RECURSIVE StripZeros(_)
StripZeros(ds) ==
    IF Len(ds) > 1 /\ ds[1] = ZERO THEN StripZeros(Tail(ds)) ELSE ds

\* decimal digits of |v| for an int32 v
MagnitudeDigits(v) ==
    IF v = MinInt32 THEN <<50, 49, 52, 55, 52, 56, 51, 54, 52, 56>>
    ELSE Digits(IF v < 0 THEN -v ELSE v)

\* v is exactly the value of the span times 10
IsExactValue(sp, v) ==
    /\ MagnitudeDigits(v) = StripZeros(ScaledDigits(sp))
    /\ (SpanNegative(sp) => v <= 0)
    /\ (~SpanNegative(sp) => v >= 0)

\* the value times 10 is at most 2147483647 in magnitude
FitsInt32(sp) ==
    LET ds == StripZeros(ScaledDigits(sp)) IN
    \/ Len(ds) < 10
    \/ Len(ds) = 10 /\ ~ByteLess(<<50, 49, 52, 55, 52, 56, 51, 54, 52, 55>>, ds)

\* C9: the parse fails for every value span that contains an unexpected byte
\* (anything but a leading '-', digits and a single '.' followed by exactly
\* one digit).
C9_RejectsUnexpectedByte ==
    (parsed.done /\ HasUnexpectedByte(ValueSpan)) => ~parsed.ok

\* C10 as stated: for every span of the grammar the parse succeeds and
\* returns exactly the value times 10.
C10_ExactForEverySpan ==
    (parsed.done /\ MatchesGrammar(ValueSpan))
        => (parsed.ok /\ IsExactValue(ValueSpan, parsed.val))

\* C10 amended: for every span of the grammar whose value times 10 is at most
\* 2147483647 in magnitude, the parse succeeds and returns exactly the value
\* times 10.
C10_ExactWhenInRange ==
    (parsed.done /\ MatchesGrammar(ValueSpan) /\ FitsInt32(ValueSpan))
        => (parsed.ok /\ IsExactValue(ValueSpan, parsed.val))

\* a negative span with a fractional digit has been parsed: "-9.9" gave -99
C10_Witness ==
    /\ parsed.done
    /\ MatchesGrammar(ValueSpan) /\ FitsInt32(ValueSpan)
    /\ ValueSpan = <<MINUS, NINE, DOT, NINE>>
    /\ parsed.ok /\ parsed.val = -99

----------------------------------------------------------------------------
(* Records of the input file, for the pipeline claims *)

FileSize == Len(data)

\* offsets at which a newline-terminated record of the file starts
RecordStarts ==
    { r \in 0..(FileSize - 1) :
        /\ (r = 0 \/ At(data, r - 1) = NL)
        /\ \E q \in r..(FileSize - 1) : At(data, q) = NL }

\* offset of the newline that terminates the record starting at r
RecordEnd(r) ==
    CHOOSE q \in r..(FileSize - 1) :
        /\ At(data, q) = NL
        /\ \A q2 \in r..(q - 1) : At(data, q2) # NL

RecordLine(r) == Slice(data, r, RecordEnd(r))

\* position of the separator of a line: its last ';' (-1 when there is none)
SepPos(line) ==
    IF \E i \in 1..Len(line) : line[i] = SEMI
    THEN (CHOOSE i \in 1..Len(line) :
              line[i] = SEMI /\ \A j \in (i + 1)..Len(line) : line[j] # SEMI) - 1
    ELSE -1

\* empty line, no separator, separator first, separator last, value rejected
Malformed(line) ==
    \/ Len(line) = 0
    \/ SepPos(line) = -1
    \/ SepPos(line) = 0
    \/ SepPos(line) = Len(line) - 1
    \/ ~parseTemperatureFromBytes(line, SepPos(line) + 1, Len(line)).ok

KeyOf(line) == Slice(line, 0, SepPos(line))

ValueOf(line) == parseTemperatureFromBytes(line, SepPos(line) + 1, Len(line)).val

Started == 0..(workerCount - 1)

Finished(w) == wpc[w] \in { "sent", "done" }

\* record offsets the scan loop of worker w took
ScannedBy(w) ==
    LET ls == ScannedLines(data, wrange[w].s, wrange[w].e)
    IN  { ls[n] : n \in 1..Len(ls) }

ScannersOf(r) == { w \in Started : r \in ScannedBy(w) }

RECURSIVE SumValues(_)
SumValues(R) ==
    IF R = {} THEN 0
    ELSE LET r == CHOOSE x \in R : TRUE
         IN  ValueOf(RecordLine(r)) + SumValues(R \ {r})

\* the statistics of the well-formed records R (all of one key)
StatsOfRecords(R) ==
    [min   |-> CHOOSE v \in { ValueOf(RecordLine(r)) : r \in R } :
                   \A r \in R : v <= ValueOf(RecordLine(r)),
     max   |-> CHOOSE v \in { ValueOf(RecordLine(r)) : r \in R } :
                   \A r \in R : v >= ValueOf(RecordLine(r)),
     sum   |-> SumValues(R),
     count |-> Cardinality(R)]

\* the mapping from key to statistics over the well-formed records among R
StatsOver(R) ==
    LET good == { r \in R : ~Malformed(RecordLine(r)) }
        keys == { KeyOf(RecordLine(r)) : r \in good }
    IN  [k \in keys |-> StatsOfRecords({ r \in good : KeyOf(RecordLine(r)) = k })]

\* a worker's result as a mapping from key to statistics
InternStats(in) ==
    [k \in DOMAIN in.nameToID |-> in.stats[in.nameToID[k] + 1]]

\* C1: after every partition has been scanned, each newline-terminated record
\* of the file has been processed by exactly one worker.
C1_EveryRecordExactlyOnce ==
    mainPc = "done" => \A r \in RecordStarts : Cardinality(ScannersOf(r)) = 1

\* C2: the merged result is the same under every worker count; here, the
\* result of the run equals the result of the same input under one worker.
C2_SameResultAsOneWorker ==
    (mainPc = "done" /\ FileSize > 0)
        => globalStats = MergeIntern(<<>>, processChunk(data, 0, FileSize))

\* C3: a record whose terminating newline is the last byte of a partition or
\* the first byte of the next one is processed by exactly one worker.
C3_BoundaryRecordExactlyOnce ==
    mainPc = "done" =>
        \A r \in RecordStarts : \A w \in Started \ {workerCount - 1} :
            (RecordEnd(r) = wrange[w].e - 1 \/ RecordEnd(r) = wrange[w + 1].s)
                => Cardinality(ScannersOf(r)) = 1

\* floor(sum/count + 1/2)
RoundHalfUp(sum, count) == (2 * sum + count) \div (2 * count)

\* C4: for every key of the final result the formatter's mean equals
\* sum/count rounded to nearest with ties toward positive infinity.
C4_MeanRoundsHalfUp ==
    mainPc = "done" =>
        \A k \in DOMAIN globalStats :
            MeanFixedPoint(globalStats[k])
                = RoundHalfUp(globalStats[k].sum, globalStats[k].count)

\* C5: for every key of the final result, min <= mean <= max.
C5_MeanBetweenMinAndMax ==
    mainPc = "done" =>
        \A k \in DOMAIN globalStats :
            /\ globalStats[k].min <= MeanFixedPoint(globalStats[k])
            /\ MeanFixedPoint(globalStats[k]) <= globalStats[k].max

\* the decimal text of v/10 with one fractional digit and its sign
DecimalText(v) ==
    LET m == IF v < 0 THEN -v ELSE v IN
    (IF v < 0 THEN <<MINUS>> ELSE <<>>)
        \o Digits(m \div 10) \o <<DOT>> \o Digits(m % 10)

\* C6: each output line renders min, mean and max as the decimal text, with
\* one fractional digit and the right sign, of the stored value over 10.
C6_RenderedNumbersExact ==
    mainPc = "done" =>
        LET stations == SortStrings(DOMAIN globalStats) IN
        /\ Len(output) = Len(stations)
        /\ \A n \in 1..Len(stations) :
              LET st == globalStats[stations[n]] IN
              output[n] = stations[n] \o <<SEMI>>
                            \o DecimalText(st.min) \o <<SLASH>>
                            \o DecimalText(MeanFixedPoint(st)) \o <<SLASH>>
                            \o DecimalText(st.max) \o <<NL>>

\* the fold of the results of the workers in W, in ascending worker order
RECURSIVE FoldAscending(_)
FoldAscending(W) ==
    IF W = {} THEN <<>>
    ELSE LET m == CHOOSE x \in W : \A y \in W : y <= x
         IN  MergeIntern(FoldAscending(W \ {m}), interns[m])

\* C7: whatever order the results arrive in, the global mapping is the fold
\* of the results merged so far taken in ascending worker order.
C7_MergeOrderIrrelevant ==
    globalStats = FoldAscending({ merged[n] : n \in 1..Len(merged) })

\* two workers found the same key with different values and the second
\* worker's result was folded first
C7_Witness ==
    /\ mainPc = "done"
    /\ merged = <<1, 0>>
    /\ \E k \in DOMAIN globalStats :
          /\ k \in DOMAIN interns[0].nameToID
          /\ k \in DOMAIN interns[1].nameToID
          /\ globalStats[k].min < globalStats[k].max

\* C8: malformed records change nothing: at the end of the run each worker's
\* mapping, the global mapping and the output hold exactly the statistics of
\* the well-formed records scanned, and a single worker scans every record.
C8_MalformedRecordsIgnored ==
    mainPc = "done" =>
        /\ \A w \in Started : InternStats(interns[w]) = StatsOver(ScannedBy(w))
        /\ workerCount = 1 => ScannedBy(0) = RecordStarts
        /\ DOMAIN globalStats =
              { KeyOf(RecordLine(r)) :
                  r \in { x \in UNION { ScannedBy(w) : w \in Started } :
                            ~Malformed(RecordLine(x)) } }
        /\ Len(output) = Cardinality(DOMAIN globalStats)

\* a single worker met a malformed record with key C, then a well-formed
\* record, and the report holds the well-formed record's key only
C8_Witness ==
    /\ mainPc = "done"
    /\ workerCount = 1
    /\ \E r1, r2 \in RecordStarts :
          /\ r1 < r2
          /\ Malformed(RecordLine(r1))
          /\ SepPos(RecordLine(r1)) > 0
          /\ ~Malformed(RecordLine(r2))
          /\ KeyOf(RecordLine(r2)) \in DOMAIN globalStats
          /\ KeyOf(RecordLine(r1)) \notin DOMAIN globalStats
    /\ Len(output) = 1

----------------------------------------------------------------------------
(* Report order *)

\* a precedes b in byte-lexicographic order
LexLess(a, b) ==
    \E i \in 1..(Len(b)) :
        /\ \A j \in 1..(i - 1) : j <= Len(a) /\ a[j] = b[j]
        /\ (i > Len(a) \/ a[i] < b[i])
        /\ i - 1 <= Len(a)

\* the key of an output line: the text before its last ';'
OutputKey(line) == Slice(line, 0, SepPos(line))

\* C11: the keys of the output lines are strictly increasing in byte order
\* and are exactly the distinct keys of the global mapping, once each.
C11_OutputKeysSorted ==
    mainPc = "done" =>
        /\ \A n \in 1..(Len(output) - 1) :
              LexLess(OutputKey(output[n]), OutputKey(output[n + 1]))
        /\ { OutputKey(output[n]) : n \in 1..Len(output) } = DOMAIN globalStats
        /\ Len(output) = Cardinality(DOMAIN globalStats)

\* two keys were reported after the second worker's result was merged first
C11_Witness ==
    /\ mainPc = "done"
    /\ Len(output) = 2
    /\ merged = <<1, 0>>
    /\ LexLess(OutputKey(output[1]), OutputKey(output[2]))

----------------------------------------------------------------------------
(* Fair scheduling of the goroutines *)

\* the steps of the main goroutine
MainStep ==
    \/ MainEmpty
    \/ MainPlan
    \/ MainSpawn
    \/ MainSpawnCloser
    \/ MainMerge
    \/ MainReport

\* exactly when WorkerSend(w) is enabled
SendEnabled(w) ==
    /\ wpc[w] = "run"
    /\ Len(resultsCh) < workerCount
    /\ ~closed

\* the Go scheduler runs every goroutine that stays runnable.  For the send
\* of worker w this is WF_vars(WorkerSend(w)), written on the enabling
\* condition: a WorkerSend(w) step always ends with wpc[w] = "sent", so the
\* step is taken infinitely often only if it is disabled infinitely often.
Fairness ==
    /\ WF_vars(MainStep)
    /\ WF_vars(CloserClose)
    /\ \A w \in Workers : WF_vars(WorkerDone(w))
    /\ \A w \in Workers : []<>~SendEnabled(w)

\* scheduling does not depend on the contents of the records: the fair runs
\* start from the input files made of the records A;1, A;2, ;1 and the empty
\* line (and the tail B;2)
FairBytes == { NL, 49, 50, SEMI, 65, 66 }

InitFair == Init /\ \A i \in 1..Len(data) : data[i] \in FairBytes

FairSpec == InitFair /\ [][Next]_vars /\ Fairness

\* the run is over: every worker delivered and returned, the channel is
\* closed and drained, every result was merged and the report written
RunCompleted ==
    /\ mainPc = "done"
    /\ FileSize > 0 =>
          /\ \A w \in Started : wpc[w] = "done"
          /\ wg = 0
          /\ closed /\ closerPc = "done"
          /\ Len(resultsCh) = 0
          /\ Len(merged) = workerCount
          /\ output = Report(globalStats)

\* C12: under fair scheduling every run completes.  A deadlock before
\* completion would be a fair behaviour that stutters forever short of it,
\* so the property excludes one.
C12_RunCompletes == <>RunCompleted

\* a run with two workers has completed
C12_Witness ==
    /\ RunCompleted
    /\ workerCount = 2
    /\ Len(merged) = 2
    /\ wg = 0

----------------------------------------------------------------------------
(* Empty input, the merge barrier, the planned ranges, the last record *)

\* C13: an empty input starts no partition and no worker, leaves the global
\* mapping and the output empty, and main returns normally.
C13_EmptyInputNoWork ==
    (FileSize = 0 /\ mainPc # "start") =>
        /\ mainPc = "done"
        /\ workerCount = 0 /\ spawnI = 0
        /\ \A w \in Workers : wpc[w] = "none" /\ interns[w] = EmptyIntern
        /\ wg = 0 /\ closerPc = "none" /\ ~closed
        /\ Len(resultsCh) = 0 /\ Len(merged) = 0
        /\ DOMAIN globalStats = {}
        /\ Len(output) = 0

\* main has returned on an empty file
C13_Witness ==
    /\ FileSize = 0
    /\ mainPc = "done"
    /\ Len(output) = 0

\* C14: the report is written only after the result of every worker was
\* folded in exactly once, and every result in the channel or already folded
\* belongs to a worker that finished its scan and sent it.
C14_MergeBarrier ==
    /\ (mainPc = "done" /\ FileSize > 0) =>
          { merged[n] : n \in 1..Len(merged) } = Started
    /\ \A n, m \in 1..Len(merged) : merged[n] = merged[m] => n = m
    /\ \A n \in 1..Len(merged) :
          /\ Finished(merged[n])
          /\ \A m \in 1..Len(resultsCh) : resultsCh[m] # merged[n]
    /\ \A n \in 1..Len(resultsCh) : Finished(resultsCh[n])
    /\ Len(output) > 0 => mainPc = "done"

\* the report was written after the results of two workers were folded in
\* the order they were spawned
C14_Witness ==
    /\ mainPc = "done"
    /\ merged = <<0, 1>>
    /\ Len(output) > 0

\* C15: for a non-empty file the worker count is clamped to 1..N, and the
\* ranges planned so far are [i*chunk, (i+1)*chunk), the last one ending at
\* N; they are non-empty and contiguous, and once all are planned every byte
\* of the file lies in exactly one of them.
C15_RangesPartitionFile ==
    (FileSize > 0 /\ mainPc # "start") =>
        /\ workerCount >= 1 /\ workerCount <= FileSize
        /\ workerCount <= numCPU
        /\ chunkSize = FileSize \div workerCount
        /\ \A i \in 0..(spawnI - 1) :
              /\ wrange[i].s = i * chunkSize
              /\ wrange[i].e = IF i = workerCount - 1 THEN FileSize
                               ELSE (i + 1) * chunkSize
              /\ wrange[i].s < wrange[i].e
        /\ \A i \in 0..(spawnI - 2) : wrange[i].e = wrange[i + 1].s
        /\ spawnI = workerCount =>
              \A b \in 0..(FileSize - 1) :
                  Cardinality({ i \in Started :
                                  wrange[i].s <= b /\ b < wrange[i].e }) = 1

\* two ranges were planned for a file of odd length
C15_Witness ==
    /\ spawnI = 2 /\ workerCount = 2
    /\ FileSize % 2 = 1
    /\ wrange[1].e = FileSize

\* the file ends in a record without a terminating newline
HasTail == FileSize > 0 /\ At(data, FileSize - 1) # NL

\* offset of the first byte after the last newline
TailStart ==
    CHOOSE r \in 0..FileSize :
        /\ (r = 0 \/ At(data, r - 1) = NL)
        /\ \A q \in r..(FileSize - 1) : At(data, q) # NL

TailLine == Slice(data, TailStart, FileSize)

\* C16: a last record without a terminating newline is not dropped: when it
\* is well-formed it is counted under its key, on top of the scanned
\* newline-terminated records of that key.
C16_UnterminatedTailCounted ==
    (mainPc = "done" /\ HasTail /\ ~Malformed(TailLine)) =>
        /\ KeyOf(TailLine) \in DOMAIN globalStats
        /\ globalStats[KeyOf(TailLine)].count =
              1 + Cardinality({ r \in UNION { ScannedBy(w) : w \in Started } :
                                  /\ ~Malformed(RecordLine(r))
                                  /\ KeyOf(RecordLine(r)) = KeyOf(TailLine) })

----------------------------------------------------------------------------
(* Running statistics *)

\* records scanned by the workers whose results were folded so far
MergedRecords == UNION { ScannedBy(merged[n]) : n \in 1..Len(merged) }

\* the mapping of worker w holds, for every key, the smallest and the
\* largest value the worker added, their sum and their number
WorkerExact(w) ==
    /\ InternStats(interns[w]) = StatsOver(ScannedBy(w))
    /\ \A n \in 1..Len(interns[w].stats) :
          interns[w].stats[n].min <= interns[w].stats[n].max

\* the same for the global mapping and the records of the folded workers
GlobalExact ==
    /\ globalStats = StatsOver(MergedRecords)
    /\ \A k \in DOMAIN globalStats : globalStats[k].min <= globalStats[k].max

RECURSIVE SumSeq(_)
SumSeq(q) == IF q = <<>> THEN 0 ELSE Head(q) + SumSeq(Tail(q))

\* the entry of key k in the n-th folded worker result, if it has one
FoldedEntry(k, n) ==
    IF k \in DOMAIN interns[merged[n]].nameToID
    THEN InternStats(interns[merged[n]])[k]
    ELSE ZeroStats

\* the statistics of key k over the worker results folded so far
FoldOfKey(k) ==
    LET ns == { n \in 1..Len(merged) : FoldedEntry(k, n).count > 0 } IN
    [min   |-> CHOOSE v \in { FoldedEntry(k, n).min : n \in ns } :
                   \A n \in ns : v <= FoldedEntry(k, n).min,
     max   |-> CHOOSE v \in { FoldedEntry(k, n).max : n \in ns } :
                   \A n \in ns : v >= FoldedEntry(k, n).max,
     sum   |-> SumSeq([n \in 1..Len(merged) |-> FoldedEntry(k, n).sum]),
     count |-> SumSeq([n \in 1..Len(merged) |-> FoldedEntry(k, n).count])]

\* the global mapping is the fold of the worker mappings merged so far
GlobalIsFold ==
    /\ DOMAIN globalStats
          = UNION { DOMAIN interns[merged[n]].nameToID : n \in 1..Len(merged) }
    /\ \A k \in DOMAIN globalStats :
          /\ globalStats[k] = FoldOfKey(k)
          /\ globalStats[k].min <= globalStats[k].max

\* the file is only read, a worker ends in "done" only through "sent", and
\* the range and the mapping of a worker that has finished its scan are never
\* written again
ResultsFrozen ==
    /\ data' = data
    /\ \A w \in Workers :
          /\ Finished(w) => /\ wpc'[w] \in { "sent", "done" }
                            /\ interns'[w] = interns[w]
                            /\ wrange'[w] = wrange[w]
          /\ wpc'[w] = "done" => wpc[w] \in { "sent", "done" }

\* C17: in every state, each worker mapping and the global mapping hold, for
\* every key, the smallest and the largest value added, their sum and their
\* number, with min <= max.  A worker's mapping is empty before its scan,
\* exact when the scan has ended, and frozen from then on; the global
\* mapping is in every state the fold of the merged worker mappings, and at
\* the end of the run it is exact over the records of the merged workers.
C17_StatsAreOfAddedValues ==
    /\ [](\A w \in Workers :
            /\ wpc[w] \in { "none", "run" } => interns[w] = EmptyIntern
            /\ wpc[w] = "sent" => WorkerExact(w))
    /\ []GlobalIsFold
    /\ [](mainPc = "done" => GlobalExact)
    /\ [][ResultsFrozen]_vars

\* a key got two different values from one worker and the result was folded
C17_Witness ==
    /\ Len(merged) = 1
    /\ \E k \in DOMAIN globalStats :
          /\ globalStats[k].count = 2
          /\ globalStats[k].min < globalStats[k].max
          /\ globalStats[k].sum = globalStats[k].min + globalStats[k].max

\* the statistics of a key seen once with value v
Seeded(v) == [min |-> v, max |-> v, sum |-> v, count |-> 1]

\* positions in merged of the results that hold key k
FoldedWith(k) ==
    { n \in 1..Len(merged) : k \in DOMAIN interns[merged[n]].nameToID }

\* the loop body applied to a well-formed record r whose key the mapping
\* intern lacks seeds the key's entry with the record's value
SeedsFrom(intern, r) ==
    LET line == RecordLine(r) IN
    (~Malformed(line) /\ KeyOf(line) \notin DOMAIN intern.nameToID)
        => InternStats(ProcessLine(intern, line))[KeyOf(line)]
              = Seeded(ValueOf(line))

\* a key folded from one worker result only has that worker's min and max
SingleFoldCopies ==
    \A k \in DOMAIN globalStats :
        Cardinality(FoldedWith(k)) = 1 =>
            \A n \in FoldedWith(k) :
                /\ globalStats[k].min = InternStats(interns[merged[n]])[k].min
                /\ globalStats[k].max = InternStats(interns[merged[n]])[k].max

\* every worker entry with one value has that value as min, max and sum
SingleValueEntries ==
    \A w \in Workers : \A n \in 1..Len(interns[w].stats) :
        interns[w].stats[n].count = 1 =>
            /\ interns[w].stats[n].min = interns[w].stats[n].max
            /\ interns[w].stats[n].min = interns[w].stats[n].sum

\* C18: the first valid record of a key seeds min = max = v, never a zero or
\* a sentinel: in the empty mapping (a function of the file, checked in the
\* initial states), in the mapping each worker is left with at the end of
\* the run (it is frozen once the scan has ended), in every worker entry with
\* count 1, and in every global entry that came from one worker result only.
C18_FirstValueSeedsMinMax ==
    /\ [](mainPc = "start" => \A r \in RecordStarts : SeedsFrom(EmptyIntern, r))
    /\ [](mainPc = "done" =>
            \A w \in Started : \A r \in RecordStarts : SeedsFrom(interns[w], r))
    /\ []SingleValueEntries
    /\ []SingleFoldCopies
    /\ [][ResultsFrozen]_vars

\* a strictly positive and a strictly negative first value were seeded and
\* folded
C18_Witness ==
    \E k1, k2 \in DOMAIN globalStats :
        /\ globalStats[k1] = Seeded(10)
        /\ globalStats[k2] = Seeded(-55)
        /\ Cardinality(FoldedWith(k1)) = 1

\* well-formed newline-terminated records of the file with key k
RecordsOfKey(k) ==
    { r \in RecordStarts : ~Malformed(RecordLine(r)) /\ KeyOf(RecordLine(r)) = k }

\* C19: at the end of the run every worker has scanned only records lying
\* entirely inside its range, no record was scanned by two workers, and the
\* count of every key is at most the number of well-formed
\* newline-terminated records of that key.
C19_NoRecordCountedTwice ==
    mainPc = "done" =>
        /\ \A w \in Started : \A r \in ScannedBy(w) :
              /\ r \in RecordStarts
              /\ wrange[w].s <= r
              /\ RecordEnd(r) < wrange[w].e
        /\ \A r \in RecordStarts : Cardinality(ScannersOf(r)) <= 1
        /\ \A k \in DOMAIN globalStats :
              globalStats[k].count <= Cardinality(RecordsOfKey(k))

\* two workers each counted one record of the same key
C19_Witness ==
    /\ mainPc = "done"
    /\ workerCount = 2
    /\ \E k \in DOMAIN globalStats :
          /\ globalStats[k].count = 2
          /\ Cardinality(RecordsOfKey(k)) = 2
          /\ \A w \in Started : k \in DOMAIN interns[w].nameToID

\* C20: every entry of a worker mapping or of the global mapping has
\* count >= 1, and a worker mapping has one statistics entry per key.
C20_EntriesHaveCount ==
    /\ \A w \in Workers :
          /\ Len(interns[w].stats) = Len(interns[w].idToName)
          /\ Len(interns[w].stats) = Cardinality(DOMAIN interns[w].nameToID)
          /\ \A n \in 1..Len(interns[w].stats) : interns[w].stats[n].count >= 1
    /\ \A k \in DOMAIN globalStats : globalStats[k].count >= 1

\* a worker met a record whose value the parser rejects and one it accepts,
\* and the report was written
C20_Witness ==
    /\ mainPc = "done"
    /\ Len(output) >= 1
    /\ \E r \in UNION { ScannedBy(w) : w \in Started } :
          /\ SepPos(RecordLine(r)) > 0
          /\ SepPos(RecordLine(r)) < Len(RecordLine(r)) - 1
          /\ Malformed(RecordLine(r))
    /\ \A k \in DOMAIN globalStats : globalStats[k].count >= 1

----------------------------------------------------------------------------
(* Channel discipline *)

\* C21: in every interleaving the channel is closed only after each of the
\* workerCount workers has sent its result, a worker that has yet to send
\* finds the channel open and with room, and the channel never buffers more
\* than workerCount results.
C21_CloseAfterSendsWithinCapacity ==
    /\ closed =>
          /\ spawnI = workerCount
          /\ \A w \in Started : wpc[w] \in { "sent", "done" }
          /\ Len(merged) + Len(resultsCh) = workerCount
    /\ \A w \in Workers :
          wpc[w] = "run" => ~closed /\ Len(resultsCh) < workerCount
    /\ Len(resultsCh) <= workerCount

\* both workers have sent, the buffer is full, nothing was received yet and
\* the channel has been closed
C21_Witness ==
    /\ closed
    /\ workerCount = 2
    /\ Len(resultsCh) = 2
    /\ merged = <<>>
    /\ \A w \in Started : wpc[w] = "done"

====
